---- MODULE Spec2Model ----
(***************************************************************************)
(* Model of the book archive client (src/src/App.jsx): the App component's *)
(* state, its event handlers, the continuations of its asynchronous        *)
(* handlers, and the remote /books resource the handlers talk to.          *)
(*                                                                         *)
(* Text is a sequence of one-character strings, so that trim() is          *)
(* computed rather than assumed.  A remote call is a record in `calls`     *)
(* from the moment fetch() is issued to the moment its continuation (the   *)
(* code after the await) has run; the closure values the continuation      *)
(* uses are kept in the call.  The timeouts that showToast sets are        *)
(* followed in SpecToast; in Spec a toast stays until it is closed or      *)
(* replaced.                                                               *)
(***************************************************************************)
EXTENDS Integers, Sequences, FiniteSets, Bags, TLC

\* ---------------------------------------------------------------- bounds
\* Remote calls the user may dispatch (the initial GET is not counted).
MaxCalls == 2
\* Input events the user may make that dispatch nothing: changes of a form
\* field or of the search text, clicks on the favourites chip or on the
\* toast's X.
MaxInputs == 2
\* Timeouts of showToast pending at once, where they are followed.
MaxTimers == 2

\* ------------------------------------------------------------------ text
SP == " "

RECURSIVE TrimStart(_)
TrimStart(s) == IF s # <<>> /\ Head(s) = SP THEN TrimStart(Tail(s)) ELSE s

RECURSIVE TrimEnd(_)
TrimEnd(s) ==
    IF s # <<>> /\ s[Len(s)] = SP THEN TrimEnd(SubSeq(s, 1, Len(s) - 1)) ELSE s

\* String.prototype.trim
Trim(s) == TrimEnd(TrimStart(s))

\* The fallback cover of saveBook, "https://picsum.photos/400/520".
Placeholder == <<"p">>

\* ----------------------------------------------------------------- values
\* null (editing) and the falsy confirmId.
Null == [null |-> TRUE]
NoId == 0

Range(s) == {s[i] : i \in 1..Len(s)}

\* The form after resetForm / useState.
EmptyForm ==
    [title |-> <<>>, author |-> <<>>, coverImage |-> <<>>,
     description |-> <<>>, rating |-> 0]

\* What the user can put in each form field.
FieldInputs ==
    [title       |-> {<<SP>>, <<SP, "D">>},
     author      |-> {<<"H", SP>>},
     coverImage  |-> {<<SP, "u">>},
     description |-> {<<"x", SP>>},
     rating      |-> {5}]

\* What the user can put in the search box.
QueryInputs == {<<>>, <<"H", SP>>}

\* The collections the remote resource may hold when the page is opened.
SeedBook ==
    [id |-> 1, title |-> <<"D", "H">>, author |-> <<"H">>, coverImage |-> <<"u">>,
     description |-> <<>>, rating |-> 7, isFavorite |-> FALSE]

SeedCollections == {<<>>, <<SeedBook>>}

\* ------------------------------------------------------------------ state
VARIABLES
    books,        \* useState([])           line 9
    loading,      \* useState(hasApi)       line 10
    q,            \* search text            line 13
    onlyFav,      \* favourites filter      line 14
    toast,        \* {show, msg, type}      line 17
    isModalOpen,  \* line 20
    editing,      \* line 21: Null or the book given to openEdit
    confirmId,    \* line 24
    form,         \* line 27
    remote,       \* the /books resource: the sequence of its records
    nextId,       \* the id the resource gives to the next POST
    calls,        \* bag of the remote calls whose continuation has not run
    dispatched,   \* number of calls the user has dispatched
    inputs,       \* number of input events so far
    timers,       \* the pending timeouts of showToast, oldest first
    fn,           \* the showToast function object of the current render
    round         \* history: the consecutive toggle round trips on a record

vars ==
    <<books, loading, q, onlyFav, toast, isModalOpen, editing, confirmId,
      form, remote, nextId, calls, dispatched, inputs, timers, fn, round>>

ui == <<q, onlyFav, isModalOpen, editing, confirmId, form, inputs>>
clockwork == <<timers, fn>>
server == <<remote, nextId>>

\* ---------------------------------------------------------------- helpers
\* showToast(msg, type): the toast it sets.
showToast(msg, type) == [show |-> TRUE, msg |-> msg, type |-> type]

\* String.prototype.toLowerCase on the letters used here.
LowerChar(c) == CASE c = "D" -> "d" [] c = "H" -> "h" [] OTHER -> c

toLowerCase(s) == [i \in 1..Len(s) |-> LowerChar(s[i])]

\* String.prototype.includes
includes(s, sub) ==
    \E i \in 0..(Len(s) - Len(sub)) : SubSeq(s, i + 1, i + Len(sub)) = sub

\* The query of the filtered memo without trim().
queryUntrimmed == toLowerCase(q)

\* The query of the filtered memo.
query == toLowerCase(Trim(q))

\* One record passes both filters of the filtered memo.
Shown(b) ==
    /\ (IF onlyFav THEN b.isFavorite ELSE TRUE)
    /\ (IF query # <<>> THEN includes(toLowerCase(b.title), query) ELSE TRUE)

\* The filtered memo.
filtered == SelectSeq(books, Shown)

\* An open modal's overlay (S.overlay: position fixed, inset 0, zIndex 50)
\* lies over the whole page, so the header, the search box, the chip and the
\* cards take no input while the editor or the confirmation is rendered. The
\* toast (S.toastWrap, zIndex 60) lies above the overlay.
Covered == isModalOpen \/ confirmId # NoId

\* The count badges of the header with the total taken from the view.
totalShown == Len(filtered)

\* The count badges of the header: books.length and
\* books.filter((b) => b.isFavorite).length.
total == Len(books)
favorites == Len(SelectSeq(books, LAMBDA b : b.isFavorite))

\* The cards that take input: none while the loader is shown in their place,
\* none under an overlay.
Cards == IF loading \/ Covered THEN {} ELSE Range(filtered)

\* prev.map((b) => (b.id === updated.id ? updated : b))
MapReplace(prev, updated) ==
    [i \in 1..Len(prev) |-> IF prev[i].id = updated.id THEN updated ELSE prev[i]]

\* prev.filter((b) => b.id !== id)
FilterOut(prev, id) == SelectSeq(prev, LAMBDA b : b.id # id)

Max(a, b) == IF a >= b THEN a ELSE b
Min(a, b) == IF a <= b THEN a ELSE b

\* Math.max(0, Math.min(5, Number(form.rating || 0)))
ratingNum(f) == Max(0, Min(5, f.rating))

\* The validation of saveBook without trim().
InvalidUntrimmed(f) == f.title = <<>> \/ f.author = <<>>

\* The validation of saveBook: a required field is blank.
Invalid(f) == Trim(f.title) = <<>> \/ Trim(f.author) = <<>>

\* The payload of saveBook without the fallback cover.
payloadNoFallback(f) ==
    [title       |-> Trim(f.title),
     author      |-> Trim(f.author),
     coverImage  |-> Trim(f.coverImage),
     description |-> Trim(f.description),
     rating      |-> ratingNum(f)]

\* The payload saveBook builds from the form.
payload(f) ==
    [title       |-> Trim(f.title),
     author      |-> Trim(f.author),
     coverImage  |-> IF Trim(f.coverImage) # <<>> THEN Trim(f.coverImage)
                     ELSE Placeholder,
     description |-> Trim(f.description),
     rating      |-> ratingNum(f)]

\* { ...editing, ...payload }
UpdateBody(e, f) ==
    [e EXCEPT !.title = payload(f).title, !.author = payload(f).author,
              !.coverImage = payload(f).coverImage,
              !.description = payload(f).description,
              !.rating = payload(f).rating]

\* { ...payload, isFavorite: false }: the POST body has no id.
CreateBody(f) ==
    [title |-> payload(f).title, author |-> payload(f).author,
     coverImage |-> payload(f).coverImage,
     description |-> payload(f).description,
     rating |-> payload(f).rating, isFavorite |-> FALSE]

\* { ...book, isFavorite: true }
ToggleBodyAlwaysTrue(book) == [book EXCEPT !.isFavorite = TRUE]

\* { ...book, isFavorite: !book.isFavorite }
ToggleBody(book) == [book EXCEPT !.isFavorite = ~book.isFavorite]

\* A call as fetch() issues it: the handler it belongs to, the verb, the id
\* in the URL and the body; fn is the showToast that the closure of its
\* handler holds, the one of the render the handler was made in.
NewCall(by, op, id, body) ==
    [by |-> by, op |-> op, id |-> id, body |-> body, fn |-> fn,
     stage |-> "sent", res |-> <<>>]

\* The calls in flight with one more, and with one less.
Issue(c) == calls (+) SetToBag({c})
Settle(c) == calls (-) SetToBag({c})

Answer(c, res) == [c EXCEPT !.stage = "ok", !.res = res]

\* ---------------------------------------------------------------- history
\* `round` follows toggle round trips on one record that no other call
\* touching that record overlaps: n = 1 the first toggle is in flight, 2 it has been
\* applied, 3 the second is in flight, 4 it has been applied; orig is the
\* record's isFavorite in the collection at the first click.
NoRound == [n |-> 0, id |-> NoId, orig |-> FALSE]

\* A call whose continuation may change the records `id` of the collection:
\* a call on that id, the list, or the create that was answered with that id.
Touches(c, id) ==
    \/ c.id = id
    \/ c.op = "list"
    \/ c.op = "post" /\ c.stage = "ok" /\ c.res[1].id = id

\* round after toggleFav(book) was invoked.
RoundToggled(book) ==
    IF round.n = 2 /\ round.id = book.id THEN [round EXCEPT !.n = 3]
    ELSE IF round.n \in {1, 3} /\ round.id = book.id THEN NoRound
    ELSE IF round.n \in {1, 2, 3} THEN round
    ELSE IF \A c \in BagToSet(calls) : ~Touches(c, book.id)
         THEN [n |-> 1, id |-> book.id, orig |-> book.isFavorite]
    ELSE NoRound

\* round after another call on record `id` was issued.
RoundDisturbed(id) == IF round.id = id THEN NoRound ELSE round

\* round after the continuation of a toggle on record `id` has run.
RoundApplied(id) ==
    IF round.id = id /\ round.n \in {1, 3} THEN [round EXCEPT !.n = round.n + 1]
    ELSE round

\* round after a toggle on record `id` has failed.
RoundFailed(id) == IF round.id = id /\ round.n \in {1, 3} THEN NoRound ELSE round

\* ------------------------------------------------------------------- init
Init ==
    /\ books = <<>>
    /\ loading = TRUE
    /\ q = <<>>
    /\ onlyFav = FALSE
    /\ toast = [show |-> FALSE, msg |-> "", type |-> "success"]
    /\ isModalOpen = FALSE
    /\ editing = Null
    /\ confirmId = NoId
    /\ form = EmptyForm
    /\ remote \in SeedCollections
    /\ nextId = Len(remote) + 1
    /\ timers = <<>>
    /\ fn = 1
    \* the mount effect has issued apiGet()
    /\ calls = SetToBag({NewCall("load", "list", NoId, Null)})
    /\ dispatched = 0
    /\ inputs = 0
    /\ round = NoRound

\* ------------------------------------------------------------ user intents
\* openCreate (the "+ Add Book" buttons)
openCreate ==
    /\ ~Covered
    /\ editing' = Null
    /\ form' = EmptyForm
    /\ isModalOpen' = TRUE
    /\ UNCHANGED <<books, loading, q, onlyFav, toast, confirmId, server,
                   calls, dispatched, inputs, round>>

\* openEdit(book) (the Edit button of a card)
openEdit ==
    \E book \in Cards :
        /\ editing' = book
        /\ form' = [title |-> book.title, author |-> book.author,
                    coverImage |-> book.coverImage,
                    description |-> book.description,
                    rating |-> book.rating]
        /\ isModalOpen' = TRUE
        /\ UNCHANGED <<books, loading, q, onlyFav, toast, confirmId, server,
                       calls, dispatched, inputs, round>>

\* closeModal without setEditing(null).
closeModalKeepsEditing ==
    /\ isModalOpen
    /\ isModalOpen' = FALSE
    /\ UNCHANGED <<books, loading, q, onlyFav, toast, confirmId, editing, form,
                   server, calls, dispatched, inputs, round>>

\* closeModal (the editor's overlay, X and Cancel)
closeModal ==
    /\ isModalOpen
    /\ isModalOpen' = FALSE
    /\ editing' = Null
    /\ UNCHANGED <<books, loading, q, onlyFav, toast, confirmId, form, server,
                   calls, dispatched, inputs, round>>

\* An onChange of one editor field: setForm((p) => ({ ...p, [field]: v })).
SetField(field, v) ==
    /\ isModalOpen
    /\ inputs < MaxInputs
    /\ inputs' = inputs + 1
    /\ form' = [form EXCEPT ![field] = v]
    /\ UNCHANGED <<books, loading, q, onlyFav, toast, isModalOpen, editing,
                   confirmId, server, calls, dispatched, round>>

SetTitle == \E v \in FieldInputs.title : SetField("title", v)
SetAuthor == \E v \in FieldInputs.author : SetField("author", v)
SetCoverImage == \E v \in FieldInputs.coverImage : SetField("coverImage", v)
SetDescription == \E v \in FieldInputs.description : SetField("description", v)
SetRating == \E v \in FieldInputs.rating : SetField("rating", v)

\* The search box: setQ(e.target.value), and its clear button.
SetQ ==
    \E v \in QueryInputs :
        /\ ~Covered
        /\ v # q
        /\ q' = v
        /\ inputs < MaxInputs
        /\ inputs' = inputs + 1
        /\ UNCHANGED <<books, loading, onlyFav, toast, isModalOpen, editing,
                       confirmId, form, server, calls, dispatched, round>>

\* The favourites chip: setOnlyFav((v) => !v)
ToggleOnlyFav ==
    /\ ~Covered
    /\ onlyFav' = ~onlyFav
    /\ inputs < MaxInputs
    /\ inputs' = inputs + 1
    /\ UNCHANGED <<books, loading, q, toast, isModalOpen, editing, confirmId,
                   form, server, calls, dispatched, round>>

\* The toast's X: setToast((t) => ({ ...t, show: false }))
CloseToast ==
    /\ toast.show
    /\ toast' = [toast EXCEPT !.show = FALSE]
    /\ inputs < MaxInputs
    /\ inputs' = inputs + 1
    /\ UNCHANGED <<books, loading, q, onlyFav, isModalOpen, editing, confirmId,
                   form, server, calls, dispatched, round>>

\* saveBook, validation branch: toast and return.
SaveInvalid ==
    /\ isModalOpen
    /\ Invalid(form)
    /\ toast' = showToast("Please fill Title and Author", "error")
    /\ UNCHANGED <<books, loading, ui, server, calls, dispatched, round>>

\* saveBook up to its await: apiPut(editing.id, ...) or apiPost(...).
SaveDispatch ==
    /\ isModalOpen
    /\ ~Invalid(form)
    /\ dispatched < MaxCalls
    /\ dispatched' = dispatched + 1
    /\ calls' = Issue(IF editing # Null
                       THEN NewCall("save", "put", editing.id,
                                    UpdateBody(editing, form))
                       ELSE NewCall("save", "post", NoId, CreateBody(form)))
    /\ round' = IF editing # Null THEN RoundDisturbed(editing.id) ELSE round
    /\ UNCHANGED <<books, loading, toast, ui, server>>

\* toggleFav applying the flipped record to the collection before the await.
ToggleDispatchOptimistic ==
    \E book \in Cards :
        /\ dispatched < MaxCalls
        /\ dispatched' = dispatched + 1
        /\ books' = MapReplace(books, ToggleBody(book))
        /\ calls' = Issue(NewCall("toggle", "put", book.id, ToggleBody(book)))
        /\ round' = RoundToggled(book)
        /\ UNCHANGED <<loading, toast, ui, server>>

\* toggleFav(book) up to its await (the heart of a card).
ToggleDispatch ==
    \E book \in Cards :
        /\ dispatched < MaxCalls
        /\ dispatched' = dispatched + 1
        /\ calls' = Issue(NewCall("toggle", "put", book.id, ToggleBody(book)))
        /\ round' = RoundToggled(book)
        /\ UNCHANGED <<books, loading, toast, ui, server>>

\* askDelete(id) (the Delete button of a card)
askDelete ==
    \E book \in Cards :
        /\ confirmId' = book.id
        /\ UNCHANGED <<books, loading, q, onlyFav, toast, isModalOpen, editing,
                       form, server, calls, dispatched, inputs, round>>

\* The confirmation's overlay, X and Cancel: setConfirmId(null)
CancelDelete ==
    /\ confirmId # NoId
    /\ confirmId' = NoId
    /\ UNCHANGED <<books, loading, q, onlyFav, toast, isModalOpen, editing,
                   form, server, calls, dispatched, inputs, round>>

\* doDelete up to its await (the confirmation's Delete button).
DeleteDispatch ==
    /\ confirmId # NoId
    /\ dispatched < MaxCalls
    /\ dispatched' = dispatched + 1
    /\ calls' = Issue(NewCall("delete", "delete", confirmId, Null))
    /\ round' = RoundDisturbed(confirmId)
    /\ UNCHANGED <<books, loading, toast, ui, server>>

\* ------------------------------------------------------- remote resource
Sent(op) == {c \in BagToSet(calls) : c.op = op /\ c.stage = "sent"}

Replace(c, d) == Settle(c) (+) SetToBag({d})

HasId(seq, id) == \E i \in 1..Len(seq) : seq[i].id = id

\* The record the resource stores for a POST body: the body and a new id.
Created(body, id) ==
    [id |-> id, title |-> body.title, author |-> body.author,
     coverImage |-> body.coverImage, description |-> body.description,
     rating |-> body.rating, isFavorite |-> body.isFavorite]

\* GET /books answers with the collection.
ServeList ==
    \E c \in Sent("list") :
        /\ calls' = Replace(c, Answer(c, remote))
        /\ UNCHANGED <<books, loading, toast, ui, server, dispatched, round>>

\* POST /books stores the body under a new id and answers with the record.
ServePost ==
    \E c \in Sent("post") :
        /\ remote' = Append(remote, Created(c.body, nextId))
        /\ nextId' = nextId + 1
        /\ calls' = Replace(c, Answer(c, <<Created(c.body, nextId)>>))
        /\ UNCHANGED <<books, loading, toast, ui, dispatched, round>>

\* PUT /books/{id} overwrites the record and answers with it.
ServePut ==
    \E c \in Sent("put") :
        /\ HasId(remote, c.id)
        /\ remote' = MapReplace(remote, [c.body EXCEPT !.id = c.id])
        /\ calls' = Replace(c, Answer(c, <<[c.body EXCEPT !.id = c.id]>>))
        /\ UNCHANGED <<books, loading, toast, ui, nextId, dispatched, round>>

\* DELETE /books/{id} removes the record.
ServeDelete ==
    \E c \in Sent("delete") :
        /\ HasId(remote, c.id)
        /\ remote' = FilterOut(remote, c.id)
        /\ calls' = Replace(c, Answer(c, <<>>))
        /\ UNCHANGED <<books, loading, toast, ui, nextId, dispatched, round>>

\* ---------------------------------------------------------- continuations
\* Calls of one handler whose await resolved: the resource has answered.
Resolved(by) == {c \in BagToSet(calls) : c.by = by /\ c.stage = "ok"}

\* Calls of one handler whose await throws: fetch() rejects, or the resource
\* refuses the request and the answer is not ok.
Thrown(by) == {c \in BagToSet(calls) : c.by = by /\ c.stage = "sent"}

\* The mount effect after apiGet() resolved.
LoadOk ==
    \E c \in Resolved("load") :
        /\ books' = c.res
        /\ loading' = FALSE
        /\ calls' = Settle(c)
        /\ UNCHANGED <<toast, ui, server, dispatched, round>>

\* The mount effect with setLoading(false) at the end of the try block.
LoadFailKeepsLoading ==
    \E c \in Thrown("load") :
        /\ toast' = showToast("Cannot load books. Check your API URL.", "error")
        /\ calls' = Settle(c)
        /\ UNCHANGED <<books, loading, ui, server, dispatched, round>>

\* The mount effect after apiGet() threw.
LoadFail ==
    \E c \in Thrown("load") :
        /\ toast' = showToast("Cannot load books. Check your API URL.", "error")
        /\ loading' = FALSE
        /\ calls' = Settle(c)
        /\ UNCHANGED <<books, ui, server, dispatched, round>>

\* saveBook after apiPut() resolved.
SaveUpdateOk ==
    \E c \in {d \in Resolved("save") : d.op = "put"} :
        /\ books' = MapReplace(books, c.res[1])
        /\ toast' = showToast("Book updated", "success")
        /\ isModalOpen' = FALSE
        /\ editing' = Null
        /\ form' = EmptyForm
        /\ calls' = Settle(c)
        /\ UNCHANGED <<loading, q, onlyFav, confirmId, inputs, server,
                       dispatched, round>>

\* saveBook dropping the created record when the editor is no longer open.
SaveCreateOkIfOpen ==
    \E c \in {d \in Resolved("save") : d.op = "post"} :
        /\ isModalOpen
        /\ books' = Append(books, c.res[1])
        /\ toast' = showToast("Book added", "success")
        /\ isModalOpen' = FALSE
        /\ editing' = Null
        /\ form' = EmptyForm
        /\ calls' = Settle(c)
        /\ UNCHANGED <<loading, q, onlyFav, confirmId, inputs, server,
                       dispatched, round>>

\* saveBook after apiPost() resolved.
SaveCreateOk ==
    \E c \in {d \in Resolved("save") : d.op = "post"} :
        /\ books' = Append(books, c.res[1])
        /\ toast' = showToast("Book added", "success")
        /\ isModalOpen' = FALSE
        /\ editing' = Null
        /\ form' = EmptyForm
        /\ calls' = Settle(c)
        /\ UNCHANGED <<loading, q, onlyFav, confirmId, inputs, server,
                       dispatched, round>>

\* saveBook with resetForm() moved into a finally block.
SaveFailResets ==
    \E c \in Thrown("save") :
        /\ toast' = showToast("Save failed. Check API / network.", "error")
        /\ form' = EmptyForm
        /\ calls' = Settle(c)
        /\ UNCHANGED <<books, loading, q, onlyFav, isModalOpen, editing,
                       confirmId, inputs, server, dispatched, round>>

\* saveBook after apiPut() or apiPost() threw.
SaveFail ==
    \E c \in Thrown("save") :
        /\ toast' = showToast("Save failed. Check API / network.", "error")
        /\ calls' = Settle(c)
        /\ UNCHANGED <<books, loading, ui, server, dispatched, round>>

\* toggleFav choosing its message by the record it was invoked with.
ToggleOkOldState ==
    \E c \in Resolved("toggle") :
        /\ books' = MapReplace(books, c.res[1])
        /\ toast' = showToast(IF ~c.body.isFavorite THEN "Added to favorites"
                              ELSE "Removed from favorites", "info")
        /\ calls' = Settle(c)
        /\ round' = RoundApplied(c.id)
        /\ UNCHANGED <<loading, ui, server, dispatched>>

\* toggleFav applying only the isFavorite of the response to the record.
ToggleOkKeepsText ==
    \E c \in Resolved("toggle") :
        /\ books' = [i \in 1..Len(books) |->
                        IF books[i].id = c.res[1].id
                        THEN [books[i] EXCEPT !.isFavorite = c.res[1].isFavorite]
                        ELSE books[i]]
        /\ toast' = showToast(IF c.res[1].isFavorite THEN "Added to favorites"
                              ELSE "Removed from favorites", "info")
        /\ calls' = Settle(c)
        /\ round' = RoundApplied(c.id)
        /\ UNCHANGED <<loading, ui, server, dispatched>>

\* toggleFav after apiPut() resolved.
ToggleOk ==
    \E c \in Resolved("toggle") :
        /\ books' = MapReplace(books, c.res[1])
        /\ toast' = showToast(IF c.res[1].isFavorite THEN "Added to favorites"
                              ELSE "Removed from favorites", "info")
        /\ calls' = Settle(c)
        /\ round' = RoundApplied(c.id)
        /\ UNCHANGED <<loading, ui, server, dispatched>>

\* toggleFav calling itself again from its catch block.
ToggleFailRetries ==
    \E c \in Thrown("toggle") :
        /\ toast' = showToast("Failed to update favorite", "error")
        /\ calls' = Settle(c) (+) SetToBag({NewCall("toggle", "put", c.id, c.body)})
        /\ round' = RoundFailed(c.id)
        /\ UNCHANGED <<books, loading, ui, server, dispatched>>

\* toggleFav after apiPut() threw.
ToggleFail ==
    \E c \in Thrown("toggle") :
        /\ toast' = showToast("Failed to update favorite", "error")
        /\ calls' = Settle(c)
        /\ round' = RoundFailed(c.id)
        /\ UNCHANGED <<books, loading, ui, server, dispatched>>

\* doDelete filtering by the confirmId state instead of its local id.
DeleteOkByPending ==
    \E c \in Resolved("delete") :
        /\ books' = FilterOut(books, confirmId)
        /\ toast' = showToast("Book deleted", "success")
        /\ confirmId' = NoId
        /\ calls' = Settle(c)
        /\ UNCHANGED <<loading, q, onlyFav, isModalOpen, editing, form, inputs,
                       server, dispatched, round>>

\* doDelete after apiDel() resolved.
DeleteOk ==
    \E c \in Resolved("delete") :
        /\ books' = FilterOut(books, c.id)
        /\ toast' = showToast("Book deleted", "success")
        /\ confirmId' = NoId
        /\ calls' = Settle(c)
        /\ UNCHANGED <<loading, q, onlyFav, isModalOpen, editing, form, inputs,
                       server, dispatched, round>>

\* doDelete with the filter moved out of the try block, after the catch.
DeleteFailFilters ==
    \E c \in Thrown("delete") :
        /\ books' = FilterOut(books, c.id)
        /\ toast' = showToast("Delete failed", "error")
        /\ confirmId' = NoId
        /\ calls' = Settle(c)
        /\ UNCHANGED <<loading, q, onlyFav, isModalOpen, editing, form, inputs,
                       server, dispatched, round>>

\* doDelete with setConfirmId(null) at the end of the try block.
DeleteFailKeepsDialog ==
    \E c \in Thrown("delete") :
        /\ toast' = showToast("Delete failed", "error")
        /\ calls' = Settle(c)
        /\ UNCHANGED <<books, loading, q, onlyFav, isModalOpen, editing, form,
                       confirmId, inputs, server, dispatched, round>>

\* doDelete after apiDel() threw.
DeleteFail ==
    \E c \in Thrown("delete") :
        /\ toast' = showToast("Delete failed", "error")
        /\ confirmId' = NoId
        /\ calls' = Settle(c)
        /\ UNCHANGED <<books, loading, q, onlyFav, isModalOpen, editing, form,
                       inputs, server, dispatched, round>>

\* ------------------------------------------------- notification timeouts
\* showToast, lines 38-41, called on the function object g: the timeout
\* kept in g._t is cleared and g._t becomes a new timeout. A pending
\* timeout is named by the function object that keeps it.
Rearm(g) == Append(SelectSeq(timers, LAMBDA t : t # g), g)

\* The function objects that the closure of a call in flight refers to.
Held(cs) == {c.fn : c \in BagToSet(cs)}

\* A timeout of a function object that the closure of no call in flight
\* holds can never be cleared: showToast will not be called on that object
\* again. Such timeouts are all named Unheld.
Unheld == 0
Kept(ts, cs) ==
    [i \in 1..Len(ts) |-> IF ts[i] \in Held(cs) THEN ts[i] ELSE Unheld]

\* Every render of App makes a new showToast (line 36). A function object
\* that no call holds cannot be told from a new one, so the name of the
\* current one changes only when it is held: to the least name not held.
NewFn(cs) ==
    IF fn \notin Held(cs) THEN fn
    ELSE CHOOSE n \in 1..(Cardinality(Held(cs)) + 1) :
            /\ n \notin Held(cs)
            /\ \A m \in 1..(n - 1) : m \in Held(cs)

\* The step sets state, so App renders again.
Rerender == fn' = NewFn(calls')

\* A step that sets no state and shows no toast: a handler up to its await,
\* or an answer of the remote resource.
Quiet(A) == A /\ UNCHANGED <<timers, fn>>

\* A step that sets state and shows no toast.
Renders(A) == A /\ timers' = Kept(timers, calls') /\ Rerender

\* A step that calls showToast on the function object g.
Toasts(A, g) ==
    /\ A
    /\ timers' = Kept(Rearm(g), calls')
    /\ Len(timers') <= MaxTimers
    /\ Rerender

\* A continuation that calls showToast: on the function object that the
\* closure of the handler holds.
Completion(A) ==
    \E c \in BagToSet(calls) : Toasts(A /\ calls' = Settle(c), c.fn)

\* The oldest pending timeout runs (all have the same delay, 2200 ms):
\* setToast((t) => ({ ...t, show: false })).
TimerFires ==
    /\ timers # <<>>
    /\ timers' = Tail(timers)
    /\ toast' = [toast EXCEPT !.show = FALSE]
    /\ UNCHANGED <<books, loading, ui, server, calls, dispatched, round>>
    /\ Rerender

\* ---------------------------------------------------------- specification
\* A step of the user, of the remote resource or of the event loop, but for
\* what it does to the timeouts of showToast.
Step ==
    \/ openCreate \/ openEdit \/ closeModal
    \/ SetTitle \/ SetAuthor \/ SetCoverImage \/ SetDescription \/ SetRating
    \/ SetQ \/ ToggleOnlyFav \/ CloseToast
    \/ SaveInvalid \/ SaveDispatch \/ ToggleDispatch
    \/ askDelete \/ CancelDelete \/ DeleteDispatch
    \/ ServeList \/ ServePost \/ ServePut \/ ServeDelete
    \/ LoadOk \/ LoadFail
    \/ SaveUpdateOk \/ SaveCreateOk \/ SaveFail
    \/ ToggleOk \/ ToggleFail
    \/ DeleteOk \/ DeleteFail

\* The program with the timeouts of showToast not followed: a toast stays
\* until it is closed or replaced.
Next == Quiet(Step)

Spec == Init /\ [][Next]_vars

\* The same program when no call fails.
StepNoFail ==
    \/ openCreate \/ openEdit \/ closeModal
    \/ SetTitle \/ SetAuthor \/ SetCoverImage \/ SetDescription \/ SetRating
    \/ SetQ \/ ToggleOnlyFav \/ CloseToast
    \/ SaveInvalid \/ SaveDispatch \/ ToggleDispatch
    \/ askDelete \/ CancelDelete \/ DeleteDispatch
    \/ ServeList \/ ServePost \/ ServePut \/ ServeDelete
    \/ LoadOk \/ SaveUpdateOk \/ SaveCreateOk \/ ToggleOk \/ DeleteOk

NextNoFail == Quiet(StepNoFail)

SpecNoFail == Init /\ [][NextNoFail]_vars

\* The program with the timeouts of showToast followed.
NextToast ==
    \/ Renders(openCreate) \/ Renders(openEdit) \/ Renders(closeModal)
    \/ Renders(SetTitle) \/ Renders(SetAuthor) \/ Renders(SetCoverImage)
    \/ Renders(SetDescription) \/ Renders(SetRating)
    \/ Renders(SetQ) \/ Renders(ToggleOnlyFav) \/ Renders(CloseToast)
    \/ Toasts(SaveInvalid, fn)
    \/ Quiet(SaveDispatch) \/ Quiet(ToggleDispatch)
    \/ Renders(askDelete) \/ Renders(CancelDelete) \/ Quiet(DeleteDispatch)
    \/ Quiet(ServeList) \/ Quiet(ServePost) \/ Quiet(ServePut)
    \/ Quiet(ServeDelete)
    \/ Renders(LoadOk) \/ Completion(LoadFail)
    \/ Completion(SaveUpdateOk) \/ Completion(SaveCreateOk)
    \/ Completion(SaveFail)
    \/ Completion(ToggleOk) \/ Completion(ToggleFail)
    \/ Completion(DeleteOk) \/ Completion(DeleteFail)
    \/ TimerFires

SpecToast == Init /\ [][NextToast]_vars

\* The steps that are not the user's: the remote resource answers a call,
\* and the event loop runs the continuation of a call whose await has
\* resolved or thrown.
Completes ==
    \/ ServeList \/ ServePost \/ ServePut \/ ServeDelete
    \/ LoadOk \/ LoadFail
    \/ SaveUpdateOk \/ SaveCreateOk \/ SaveFail
    \/ ToggleOk \/ ToggleFail
    \/ DeleteOk \/ DeleteFail

\* The program when every call is answered (with a result or an error) and
\* every continuation is run.
SpecFair == Init /\ [][Next]_vars /\ WF_vars(Quiet(Completes))

\* ------------------------------------------------------------------ claims
\* What a step does to the calls in flight.
InFlight == BagToSet(calls)

\* The step runs the continuation of call c: c leaves the calls in flight.
Handles(c) == c \in InFlight /\ calls' = Settle(c)

\* The step runs the catch block of c's handler.
HandlesFailure(c) == Handles(c) /\ c.stage = "sent"

\* The step runs the code after c's await.
HandlesSuccess(c) == Handles(c) /\ c.stage = "ok"

Ids(seq) == {seq[i].id : i \in 1..Len(seq)}

ErrorShown(t) == t.show /\ t.type = "error"

\* C1: when the remote call of any operation (the initial load, create,
\* update, toggle-favorite, delete) fails, the step that handles the failure
\* leaves the collection as it was and shows an error notification.
C1_FailureKeepsCollection ==
    [][\A c \in InFlight :
          HandlesFailure(c) => books' = books /\ ErrorShown(toast')]_vars

\* C1 witness: a failed delete has been handled while the collection holds
\* the record that was to be deleted.
C1_Witness ==
    /\ toast = showToast("Delete failed", "error")
    /\ books # <<>>
    /\ confirmId = NoId

\* C2: no two records of the collection have the same id.
C2_UniqueIds ==
    \A i, j \in 1..Len(books) : books[i].id = books[j].id => i = j

\* C3: when no call is in flight (and none has failed: the specification
\* SpecNoFail has no failures), the collection and the remote resource hold
\* the same records: the same ids, and under each id the same fields.
C3_ClientEqualsRemote ==
    calls = EmptyBag => Range(books) = Range(remote)

\* C4: an id leaves the collection only in the step that handles the
\* successful remove call for that id.
C4_LeavesOnlyByRemove ==
    [][\A id \in Ids(books) \ Ids(books') :
          \E c \in InFlight :
              HandlesSuccess(c) /\ c.op = "delete" /\ c.id = id]_vars

\* C5: every record that enters the collection is a record of the successful
\* list, create or replace response handled in that step, and the collection
\* changes in no other step; in particular not when a call is dispatched.
C5_OnlyConfirmedRecords ==
    [][/\ \A r \in Range(books') \ Range(books) :
             \E c \in InFlight :
                 /\ HandlesSuccess(c)
                 /\ c.op \in {"list", "post", "put"}
                 /\ r \in Range(c.res)
       /\ books' # books => \E c \in InFlight : HandlesSuccess(c)
       /\ dispatched' # dispatched => books' = books]_vars

\* C5 witness: the collection holds a favourite record while a call that
\* was dispatched later is still in flight.
C5_Witness ==
    /\ \E r \in Range(books) : r.isFavorite
    /\ \E c \in InFlight : c.stage = "sent" /\ c.by # "load"

\* The step issues call c.
Issues(c) == c \in BagToSet(calls') /\ calls' = Issue(c)

Issued == BagToSet(calls')

\* Empty after trimming.
Blank(s) == Trim(s) = <<>>

\* A record without its id.
Fields(r) ==
    [title |-> r.title, author |-> r.author, coverImage |-> r.coverImage,
     description |-> r.description, rating |-> r.rating,
     isFavorite |-> r.isFavorite]

\* C6: a save whose draft title or author is empty after trimming
\* dispatches no call, shows an error notification and leaves the
\* collection, the editor target, the editor and the draft as they were.
C6_InvalidSaveDoesNothing ==
    [][((SaveInvalid \/ SaveDispatch)
           /\ (Blank(form.title) \/ Blank(form.author)))
          => /\ calls' = calls
             /\ ErrorShown(toast')
             /\ books' = books
             /\ editing' = editing
             /\ isModalOpen' = isModalOpen
             /\ form' = form]_vars

\* C6 witness: the validation message is shown for a title of one space.
C6_Witness ==
    /\ toast = showToast("Please fill Title and Author", "error")
    /\ isModalOpen
    /\ form.title = <<SP>>

\* The fields a create has as the claim words them: those of the draft, the
\* rating clamped into [0,5], a blank cover replaced, never a favourite.
DraftFields(d) ==
    [title |-> d.title, author |-> d.author,
     coverImage |-> IF Blank(d.coverImage) THEN Placeholder ELSE d.coverImage,
     description |-> d.description,
     rating |-> IF d.rating < 0 THEN 0 ELSE IF d.rating > 5 THEN 5 ELSE d.rating,
     isFavorite |-> FALSE]

\* The same with the text fields trimmed.
TrimmedDraft(d) ==
    [d EXCEPT !.title = Trim(d.title), !.author = Trim(d.author),
              !.coverImage = Trim(d.coverImage),
              !.description = Trim(d.description)]

\* A create, from the click to the record in the collection: the POST body
\* is made of `fields` of the draft and has no id, and the continuation
\* appends one record, which has the fields of the body and the id of the
\* response.
CreateAdds(fields(_)) ==
    /\ \A c \in Issued :
          Issues(c) /\ c.op = "post"
             => c.body = fields(form) /\ "id" \notin DOMAIN c.body
    /\ \A c \in InFlight :
          HandlesSuccess(c) /\ c.op = "post"
             => /\ Len(books') = Len(books) + 1
                /\ SubSeq(books', 1, Len(books)) = books
                /\ Fields(books'[Len(books')]) = c.body
                /\ books'[Len(books')].id = c.res[1].id

\* C7 as stated: the created record has the draft's fields, with only the
\* rating clamped, a blank cover replaced and isFavorite false.
C7_CreateAddsDraft == [][CreateAdds(DraftFields)]_vars

\* C7 as amended: the created record has the draft's title, author, cover
\* and description trimmed, the rating clamped into [0,5], the placeholder
\* for a cover that is blank after trimming, isFavorite false and the id
\* the remote resource assigned; one record is added, at the end.
C7_CreateAddsTrimmedDraft ==
    [][CreateAdds(LAMBDA d : DraftFields(TrimmedDraft(d)))]_vars

\* C7 witness: a create has been applied; its record has the trimmed title
\* and the placeholder cover.
C7_Witness ==
    /\ toast = showToast("Book added", "success")
    /\ \E r \in Range(books) :
          r.title = <<"D">> /\ r.coverImage = Placeholder /\ ~r.isFavorite

\* C8: the step that applies a successful update leaves the isFavorite of
\* the updated record as it was in the collection.
C8_UpdateKeepsFavorite ==
    [][\A c \in InFlight :
          HandlesSuccess(c) /\ c.by = "save" /\ c.op = "put"
             => \A i \in 1..Len(books) :
                   books[i].id = c.id
                      => books'[i].isFavorite = books[i].isFavorite]_vars

\* C10: a remove call is issued only for the id that is the pending-delete
\* target; an id becomes the pending-delete target only by the Delete
\* button of a card showing it; clearing the target without a call having
\* been handled (cancelling) leaves the collection as it was; and applying
\* a successful remove takes out the records with that id and no others.
C10_DeleteOnlyConfirmed ==
    [][/\ \A c \in Issued :
             Issues(c) /\ c.op = "delete"
                => confirmId # NoId /\ c.id = confirmId
       /\ (confirmId' # confirmId /\ confirmId' # NoId)
             => /\ \E b \in Cards : b.id = confirmId'
                /\ calls' = calls
                /\ books' = books
       /\ (confirmId # NoId /\ confirmId' = NoId /\ calls' = calls)
             => books' = books
       /\ \A c \in InFlight :
             HandlesSuccess(c) /\ c.op = "delete"
                => books' = SelectSeq(books, LAMBDA b : b.id # c.id)]_vars

\* C10 witness: a delete has been applied and another record is left.
C10_Witness ==
    /\ toast = showToast("Book deleted", "success")
    /\ books # <<>>
    /\ Range(books) = Range(remote)

\* C9: when a toggle-favorite on a record has been applied and then a
\* second toggle-favorite on it has been applied, with no other call
\* touching the record (a call on its id, the initial list, its own create)
\* in flight from the first click on, the record's isFavorite in the
\* collection is what it was at the first click.
C9_ToggleTwiceRestores ==
    round.n = 4
       => \A i \in 1..Len(books) :
             books[i].id = round.id => books[i].isFavorite = round.orig

\* C9 witness: two toggle round trips on a record have been applied and
\* the record is in the collection.
C9_Witness == round.n = 4 /\ round.id \in Ids(books)

SuccessShown(t) == t.show /\ t.type = "success"

\* C11: the step that handles a save's successful response closes the
\* editor (modal closed, editor target none) and shows a success
\* notification; the step that handles a save's failure leaves the editor
\* target, the draft and the editor's open state exactly as they were.
C11_SaveClosesOrKeepsEditor ==
    [][\A c \in InFlight :
          /\ (HandlesSuccess(c) /\ c.by = "save")
                => ~isModalOpen' /\ editing' = Null /\ SuccessShown(toast')
          /\ (HandlesFailure(c) /\ c.by = "save")
                => /\ editing' = editing
                   /\ form' = form
                   /\ isModalOpen' = isModalOpen]_vars

\* C11 witness: a save has failed and the editor is still open on the
\* record being edited, with the draft the user typed.
C11_Witness ==
    /\ toast = showToast("Save failed. Check API / network.", "error")
    /\ isModalOpen
    /\ editing # Null
    /\ form.title = <<SP, "D">>

\* s has sub as a run of consecutive characters.
IsSubstring(sub, s) ==
    \E a \in 0..Len(s) :
        \E b \in a..Len(s) : SubSeq(s, a + 1, b) = sub

\* The records the claim lets through the filters.
Wanted(r) ==
    /\ onlyFav => r.isFavorite
    /\ \/ toLowerCase(Trim(q)) = <<>>
       \/ IsSubstring(toLowerCase(Trim(q)), toLowerCase(r.title))

\* The subsequence of the wanted records, in the order of seq.
RECURSIVE KeepWanted(_)
KeepWanted(seq) ==
    IF seq = <<>> THEN <<>>
    ELSE IF Wanted(Head(seq)) THEN <<Head(seq)>> \o KeepWanted(Tail(seq))
    ELSE KeepWanted(Tail(seq))

\* C12: the filtered view is the subsequence, in collection order, of the
\* records r with (favourites-only implies r.isFavorite) and (the trimmed,
\* lower-cased search text is empty or a substring of r's lower-cased title).
C12_FilteredIsSubsequence == filtered = KeepWanted(books)

\* C12 witness: both filters are on (the search text has an upper-case
\* letter and a trailing space) and a record passes both.
C12_Witness ==
    /\ q = <<"H", SP>>
    /\ onlyFav
    /\ filtered # <<>>

\* The step leaves enabled each user intent the claim names (open editor,
\* save, search, filter) that was enabled before it.
IntentsStillEnabled ==
    /\ ENABLED Quiet(openCreate) => (ENABLED Quiet(openCreate))'
    /\ ENABLED Quiet(SaveInvalid \/ SaveDispatch)
          => (ENABLED Quiet(SaveInvalid \/ SaveDispatch))'
    /\ ENABLED Quiet(SetQ) => (ENABLED Quiet(SetQ))'
    /\ ENABLED Quiet(ToggleOnlyFav) => (ENABLED Quiet(ToggleOnlyFav))'

\* What the step that handles the failure of the initial list call does,
\* but for the collection.
FailedLoadStep ==
    /\ ErrorShown(toast')
    /\ ~loading'
    /\ IntentsStillEnabled

\* C13 as stated: after the initial list call has failed the collection is
\* empty, an error notification is shown, the loading flag is cleared and
\* the user intents are still enabled.
C13_FailedLoadLeavesEmpty ==
    [][\A c \in InFlight :
          HandlesFailure(c) /\ c.op = "list"
             => books' = <<>> /\ FailedLoadStep]_vars

\* C13 as amended: the step that handles the failure of the initial list
\* call leaves the collection as it was (empty, unless a create was applied
\* while the list call was in flight), shows an error notification, clears
\* the loading flag and leaves every enabled user intent enabled.
C13_FailedLoadKeepsCollection ==
    [][\A c \in InFlight :
          HandlesFailure(c) /\ c.op = "list"
             => books' = books /\ FailedLoadStep]_vars

\* C13 witness: the initial list call has failed after a create was
\* applied; the collection holds the created record.
C13_Witness ==
    /\ toast = showToast("Cannot load books. Check your API URL.", "error")
    /\ ~loading
    /\ books # <<>>

\* C14: a notification is hidden by a timeout only when its own display
\* duration has elapsed: the timeout that hides a shown notification is the
\* one set when that notification was shown (the youngest, and so the only
\* one pending: showing a notification clears the timeout of the one it
\* replaces), also when the two came from different operations.
C14_ToastKeepsItsDuration ==
    [][(TimerFires /\ toast.show) => Len(timers) = 1]_vars

\* C15: the step that handles the successful response of an update or a
\* toggle leaves every record of the collection with the response's id
\* equal to the returned record, whatever other call on that record is in
\* flight and whichever was dispatched first; so after two overlapping
\* calls the record is the one returned by the response handled last.
C15_LastResponseWins ==
    [][\A c \in InFlight :
          HandlesSuccess(c) /\ c.op = "put"
             => \A i \in 1..Len(books') :
                   books'[i].id = c.res[1].id => books'[i] = c.res[1]]_vars

\* C15 witness: a toggle and an update of record 1 overlapped; the remote
\* resource served the update first, the client handled its response last,
\* and the collection holds the update's record (the remote the toggle's).
C15_Witness ==
    /\ calls = EmptyBag
    /\ toast = showToast("Book updated", "success")
    /\ \E i \in 1..Len(books) : \E j \in 1..Len(remote) :
          /\ books[i].id = remote[j].id
          /\ ~books[i].isFavorite
          /\ remote[j].isFavorite

\* next is prev with every record that has rec's id overwritten by rec,
\* the other records and the order kept.
Overwritten(prev, rec, next) ==
    /\ Len(next) = Len(prev)
    /\ \A i \in 1..Len(prev) :
          next[i] = IF prev[i].id = rec.id THEN rec ELSE prev[i]

\* next is prev with rec added and nothing else changed.
Inserted(prev, rec, next) ==
    /\ Len(next) = Len(prev) + 1
    /\ \E k \in 1..Len(next) :
          /\ next[k] = rec
          /\ \A i \in 1..Len(prev) : prev[i] = next[IF i < k THEN i ELSE i + 1]

\* C16: applying the record returned by a successful update or toggle
\* overwrites the collection's record with the same id entirely, and
\* inserts the returned record when no record of the collection has its id.
C16_AppliesAsUpsert ==
    [][\A c \in InFlight :
          HandlesSuccess(c) /\ c.op = "put"
             => IF c.res[1].id \in Ids(books)
                THEN Overwritten(books, c.res[1], books')
                ELSE Inserted(books, c.res[1], books')]_vars

\* C17: the step that completes a confirmed delete attempt, whether the
\* remove call succeeded or failed, leaves the pending-delete target none.
C17_DeleteClosesDialog ==
    [][\A c \in InFlight :
          Handles(c) /\ c.op = "delete" => confirmId' = NoId]_vars

\* C17 witness: a delete has succeeded, the collection is empty and the
\* confirmation is closed.
C17_Witness ==
    /\ toast = showToast("Book deleted", "success")
    /\ ~loading
    /\ books = <<>>
    /\ confirmId = NoId

\* C18: the toggle-favorite request for a record carries the record's id
\* and a body equal to the record as it is in the collection at the click
\* with only isFavorite negated; the step that handles its success shows a
\* notification of kind info whose message is the "added" one when the
\* returned record's isFavorite is true and the "removed" one otherwise.
C18_ToggleRequestAndMessage ==
    [][/\ \A c \in Issued :
             Issues(c) /\ c.by = "toggle"
                => \E i \in 1..Len(books) :
                      /\ c.id = books[i].id
                      /\ c.op = "put"
                      /\ c.body.isFavorite = ~books[i].isFavorite
                      /\ [c.body EXCEPT !.isFavorite = books[i].isFavorite]
                            = books[i]
       /\ \A c \in InFlight :
             HandlesSuccess(c) /\ c.by = "toggle"
                => /\ toast'.show
                   /\ toast'.type = "info"
                   /\ c.res[1].isFavorite => toast'.msg = "Added to favorites"
                   /\ ~c.res[1].isFavorite
                         => toast'.msg = "Removed from favorites"]_vars

\* C18 witness: a toggle of a favourite record has been applied: the
\* "removed" message is shown and the record is no favourite.
C18_Witness ==
    /\ toast = showToast("Removed from favorites", "info")
    /\ \E r \in Range(books) : ~r.isFavorite

\* C19: when the remote resource answers every call, every dispatched call
\* is eventually handled (applied or failed: it leaves the calls in flight,
\* and the user dispatches finitely many) and loading is eventually false
\* for good; and the step that handles a success applies the result to the
\* collection whatever the editor and the confirmation have become since.
C19_EveryCallCompletes ==
    /\ <>[](calls = EmptyBag /\ ~loading)
    /\ [][\A c \in InFlight :
             HandlesSuccess(c)
                => CASE c.op = "list"   -> books' = c.res
                     [] c.op = "post"   -> books' = Append(books, c.res[1])
                     [] c.op = "put"    -> Overwritten(books, c.res[1], books')
                     [] c.op = "delete" ->
                           books' = SelectSeq(books, LAMBDA b : b.id # c.id)]_vars

\* C19 witness: a create has been answered while the editor that issued it
\* is closed, and a delete while its confirmation is closed.
C19_Witness ==
    /\ ~isModalOpen
    /\ confirmId = NoId
    /\ \E c \in InFlight : c.op = "post" /\ c.stage = "ok"
    /\ \E c \in InFlight : c.op = "delete" /\ c.stage = "ok"

\* C20: a step that changes the search text or the favourites-only flag
\* leaves the collection as it was, and with it the total and favourites
\* counts of the header.
C20_FiltersKeepCollection ==
    [][(q' # q \/ onlyFav' # onlyFav)
          => /\ books' = books
             /\ total' = total
             /\ favorites' = favorites]_vars

\* C20 witness: both filters are on and the view is shorter than the
\* collection.
C20_Witness ==
    /\ q # <<>>
    /\ onlyFav
    /\ Len(filtered) < total

\* The number of calls in flight.
Pending(cs) == BagCardinality(cs)

\* The step is a user invocation that reaches the network: saveBook with a
\* valid draft, toggleFav or doDelete.
Invocation == SaveDispatch \/ ToggleDispatch \/ DeleteDispatch

\* The step runs the catch block of a handler.
Catch == LoadFail \/ SaveFail \/ ToggleFail \/ DeleteFail

\* C21: a step issues at most one call, and only a step in which the user
\* invokes save, toggle-favorite or the confirmed delete issues one; the
\* step that handles a failure issues none (the failed call leaves the
\* calls in flight and none enters); so the calls in flight are never more
\* than one (the initial list) plus the user's invocations.
C21_NoRetry ==
    /\ [](Pending(calls) <= 1 + dispatched)
    /\ [][/\ Pending(calls') <= Pending(calls) + 1
          /\ Pending(calls') > Pending(calls)
                => Invocation /\ dispatched' = dispatched + 1
          /\ Catch
                => /\ Pending(calls') = Pending(calls) - 1
                   /\ calls' \sqsubseteq calls]_vars

\* C21 witness: the only call the user dispatched, a toggle, has failed and
\* no call is in flight.
C21_Witness ==
    /\ toast = showToast("Failed to update favorite", "error")
    /\ calls = EmptyBag
    /\ dispatched = 1

\* The target of the editor session that issued the save call c: the
\* record of an update, none for a create.
IssuedFor(c) == IF c.op = "put" THEN c.id ELSE NoId

\* The target of the editor that is open.
OpenFor == IF editing # Null THEN editing.id ELSE NoId

\* The editor is open on another target than the one c was issued for, so
\* it is not the editor session that issued c.
OtherSession(c) == isModalOpen /\ OpenFor # IssuedFor(c)

\* C22: the step that handles the response of a save, while the editor is
\* open in another session than the one that issued the save (another
\* target, or a create instead of an update), leaves the open editor, its
\* target and its draft as they were.
C22_SaveKeepsOtherSession ==
    [][\A c \in InFlight :
          Handles(c) /\ c.by = "save" /\ OtherSession(c)
             => /\ isModalOpen' = isModalOpen
                /\ editing' = editing
                /\ form' = form]_vars

\* Records r and s differ at most in isFavorite.
SameButFavorite(r, s) == [s EXCEPT !.isFavorite = r.isFavorite] = r

\* C23: the step that handles the successful response of a toggle-favorite
\* changes at most the isFavorite of the records with the toggle's id
\* (their title, author, coverImage, description and rating stay as they
\* were just before the step, also when an update of the record was applied
\* while the toggle was in flight) and leaves every other record and the
\* order of the collection as they were.
C23_ToggleChangesOnlyFavorite ==
    [][\A c \in InFlight :
          HandlesSuccess(c) /\ c.by = "toggle"
             => /\ Len(books') = Len(books)
                /\ \A i \in 1..Len(books) :
                      IF books[i].id = c.id
                      THEN SameButFavorite(books[i], books'[i])
                      ELSE books'[i] = books[i]]_vars

\* C24: whenever the editor target is not none the editor modal is open;
\* equivalently, while the editor modal is closed the editor target is none.
C24_EditingImpliesOpen ==
    /\ editing # Null => isModalOpen
    /\ ~isModalOpen => editing = Null

\* C24 witness: an editor session on a record was closed by the response
\* of its update, and the editor has been opened on the record again: the
\* target is not none and the modal is open.
C24_Witness ==
    /\ toast = showToast("Book updated", "success")
    /\ editing # Null
    /\ isModalOpen
    /\ calls = EmptyBag

====
